---- MODULE Spec2Model ----
(***************************************************************************)
(* Model of codex-rs/core/src/request_logging.rs: the per-conversation     *)
(* RequestLogger (from_env, log_request) and the RequestAttemptLogger it   *)
(* returns, whose six log_* calls append one JSON line each to the         *)
(* attempt's response file through write_json_line, under a Mutex<File>.   *)
(*                                                                         *)
(* A file is a sequence of chunks.  std::fs::File is unbuffered, so every  *)
(* write_all that serde_json issues reaches the file at once, at the       *)
(* handle's own offset (the files are opened without append).              *)
(***************************************************************************)
EXTENDS Integers, Sequences, FiniteSets, TLC

\* ---------------------------------------------------------------- bounds
\* calls of log_request and of the log_* functions made in one run
MaxCalls == 4
\* I/O errors and panics the environment injects in one run
MaxFaults == 1
\* header entries of one response
MaxHeaders == 3

Threads == {"t1", "t2"}
\* attempt numbers: one shorter, one longer than the padding width
Attempts == {1, 1001}
Urls == {"u"}
\* a payload is a JSON value that serialises to that many chunks
Payloads == {1, 2}

NoThread == "none"

\* header names, as their ranks in the order of str
HeaderNames == {1, 2}
\* header values, as byte strings: "v", "w", and the one byte 0xE9
HeaderValues == {<<118>>, <<119>>, <<233>>}
StatusCodes == {200, 404}

\* ------------------------------------------------------- pure functions
RECURSIVE Digits(_)
Digits(n) == IF n < 10 THEN <<n>> ELSE Digits(n \div 10) \o <<n % 10>>

RECURSIVE PadExact(_, _)
\* faulty variant: exactly width digits, the leading ones of a longer number cut
PadExact(ds, width) ==
    IF Len(ds) = width THEN ds
    ELSE IF Len(ds) > width THEN PadExact(Tail(ds), width)
    ELSE PadExact(<<0>> \o ds, width)

RECURSIVE PadLeft(_, _)
PadLeft(ds, width) == IF Len(ds) >= width THEN ds ELSE PadLeft(<<0>> \o ds, width)

AttemptWidth == 3

\* faulty variant: the attempt number is left out of the name
attempt_id_fixed(attempt) == <<"attempt-">> \o PadLeft(Digits(0), AttemptWidth)

\* format!("attempt-{attempt:03}")
attempt_id(attempt) == <<"attempt-">> \o PadLeft(Digits(attempt), AttemptWidth)

\* faulty variant: the response file is given the request file's name
response_path_same(attempt) == attempt_id(attempt) \o <<"-request.json">>

request_path(attempt) == attempt_id(attempt) \o <<"-request.json">>
response_path(attempt) == attempt_id(attempt) \o <<"-response.jsonl">>

Paths == {request_path(a) : a \in Attempts} \cup {response_path(a) : a \in Attempts}

\* The chunks serde_json::to_writer issues for one event object, in order.
EventChunks == <<"{", "}">>
NL == "\n"
NUL == "NUL"

EventBytes(e) == [i \in 1..Len(EventChunks) |-> [ev |-> e, ch |-> EventChunks[i]]]
NewlineByte(e) == [ev |-> e, ch |-> NL]
Hole == [ev |-> 0, ch |-> NUL]

RECURSIVE Repeat(_, _)
Repeat(x, n) == IF n <= 0 THEN <<>> ELSE <<x>> \o Repeat(x, n - 1)

\* The record write_request_file serialises, then its "\n".
RequestBytes(attempt, url, payload) ==
    Repeat([attempt |-> attempt, url |-> url, payload |-> payload, ch |-> "json"], payload)
    \o <<[attempt |-> attempt, url |-> url, payload |-> payload, ch |-> NL]>>

\* faulty variant: the chunk lands at the start of the file, whatever the offset
WriteAtStart(data, pos, b) == <<b>> \o data

\* write(2) of one chunk at offset pos of a file holding data: a write past the
\* end leaves a hole of zero bytes, a write inside the file overwrites.
WriteAt(data, pos, b) ==
    IF pos < Len(data)
    THEN [data EXCEPT ![pos + 1] = b]
    ELSE data \o Repeat(Hole, pos - Len(data)) \o <<b>>

\* the handle's offset after writing one chunk at pos
Advance(pos) == pos + 1

\* faulty variant: the file is opened without truncate(true)
OpenKeep(file) == [exists |-> TRUE, data |-> file.data]

\* OpenOptions::new().create(true).write(true).truncate(true).open(path)
OpenTruncate(file) == [exists |-> TRUE, data |-> <<>>]

\* faulty variant: self.inner.file.lock().is_ok(): a poisoned lock gives no guard
GuardOnlyIfClean(isPoisoned) == ~isPoisoned

\* match self.inner.file.lock() { Ok(guard) => guard, Err(poisoned) => poisoned.into_inner() }
GuardObtained(isPoisoned) == TRUE

\* faulty variant: a lock that excludes nobody
LockFreeAlways(wr) == TRUE

\* Mutex::lock returns only while no other guard of the Mutex is alive
LockFree(wr) == wr.holder = NoThread

\* faulty variant: the guard is leaked instead of dropped
KeepLocked(wr) == wr

\* the MutexGuard going out of scope when write_json_line returns
Unlock(wr) == [wr EXCEPT !.holder = NoThread]

\* the MutexGuard dropped while the holder's thread unwinds
UnlockPanicking(wr) == [wr EXCEPT !.holder = NoThread, !.poisoned = TRUE]

\* HeaderValue::to_str: Ok for visible ASCII and tab only
is_visible_ascii(b) == (b >= 32 /\ b < 127) \/ b = 9
to_str(value) ==
    IF \A i \in 1..Len(value) : is_visible_ascii(value[i])
    THEN [ok |-> TRUE, str |-> value]
    ELSE [ok |-> FALSE, str |-> <<>>]

\* value.to_str().unwrap_or_default().to_string(): the empty string on Err
unwrap_or_default(r) == IF r.ok THEN r.str ELSE <<>>

RECURSIVE entry_push(_, _, _)
\* headers_map.entry(name).or_default().push(str), the BTreeMap kept as the
\* sequence of its entries in key order
entry_push(map, name, str) ==
    IF map = <<>> THEN <<[name |-> name, values |-> <<str>>]>>
    ELSE IF Head(map).name = name
         THEN <<[Head(map) EXCEPT !.values = Append(@, str)]>> \o Tail(map)
    ELSE IF Head(map).name > name
         THEN <<[name |-> name, values |-> <<str>>]>> \o map
    ELSE <<Head(map)>> \o entry_push(Tail(map), name, str)

RECURSIVE headers_map(_, _)
\* the loop of log_response_start over the entries it yields
headers_map(it, map) ==
    IF it = <<>> THEN map
    ELSE headers_map(Tail(it),
                     entry_push(map, Head(it).name,
                                unwrap_or_default(to_str(Head(it).value))))

\* the entries of name, in the order they were appended
EntriesOf(hs, name) == SelectSeq(hs, LAMBDA h : h.name = name)

RECURSIVE iter(_, _)
\* HeaderMap::iter: name by name in the table's order, the values of one name
\* in the order they were appended
iter(hs, order) ==
    IF order = <<>> THEN <<>> ELSE EntriesOf(hs, Head(order)) \o iter(hs, Tail(order))

\* the orders in which the table can hold the names
TableOrders == {<<1, 2>>, <<2, 1>>}

NoLine == [written |-> FALSE, given |-> 0, status |-> 0, headers |-> <<>>]

NoFile == [exists |-> FALSE, data |-> <<>>]
NoReq == [attempt |-> 0, url |-> "", payload |-> 0]

\* ------------------------------------------------------------ the state
VARIABLES
    envSet,     \* CODEX_REQUEST_LOG_DIR is set
    dirState,   \* what is at <base>/<conversation-id>: "absent", "dir", "file"
    router,     \* from_env has returned Some(RequestLogger)
    files,      \* path -> [exists, data]
    writers,    \* RequestAttemptLogInner's, in creation order: [path, pos, holder, poisoned]
    events,     \* the emit calls so far, in invocation order: [writer, status, after]
    pc,         \* thread -> position
    curEv,      \* thread -> the event of its emit call (0: none)
    sent,       \* thread -> chunks of its event written so far
    curReq,     \* thread -> the arguments of its log_request call
    begins,     \* log_request calls so far
    faults,     \* I/O errors and panics so far
    lastBegin,  \* the last log_request call to return: [attempt, outcome, hadLines]
    initResult, \* what the last from_env call returned: "never", "none", "some"
    headers,    \* the HeaderMap of a response: [name, value] in the order appended
    line        \* the response_started value made of it: [written, given, status, headers]

vars == <<envSet, dirState, router, files, writers, events, pc, curEv, sent, curReq,
          begins, faults, lastBegin, initResult, headers, line>>

Init ==
    /\ envSet \in BOOLEAN
    /\ dirState \in {"absent", "dir", "file"}
    /\ router = FALSE
    /\ files = [p \in Paths |-> NoFile]
    /\ writers = <<>>
    /\ events = <<>>
    /\ pc = [t \in Threads |-> "idle"]
    /\ curEv = [t \in Threads |-> 0]
    /\ sent = [t \in Threads |-> 0]
    /\ curReq = [t \in Threads |-> NoReq]
    /\ begins = 0
    /\ faults = 0
    /\ lastBegin = [attempt |-> 0, outcome |-> "never", hadLines |-> FALSE]
    /\ initResult = "never"
    /\ headers = <<>>
    /\ line = NoLine

\* An operation of the operating system fails (failed), or does not.
Fault(failed) ==
    IF failed THEN faults < MaxFaults /\ faults' = faults + 1 ELSE faults' = faults

\* ------------------------------------------------------- Session Router

\* faulty variant: whatever is at the path is taken for the directory
create_dir_all_lenient(state, osOk) == [ok |-> TRUE, state |-> state]

\* std::fs::create_dir_all(&conversation_dir): Ok when the directory is there or
\* can be made, Err when a regular file is in the way or the OS refuses (osOk).
create_dir_all(state, osOk) ==
    IF state = "dir" THEN [ok |-> TRUE, state |-> "dir"]
    ELSE IF state = "file" \/ ~osOk THEN [ok |-> FALSE, state |-> state]
    ELSE [ok |-> TRUE, state |-> "dir"]

\* faulty variant: a default directory is used when the variable is not set
var_os_or_default(isSet) == TRUE

\* std::env::var_os(REQUEST_LOG_DIR_ENV)?: Some exactly when the variable is set
var_os(isSet) == isSet

\* RequestLogger::from_env
from_env ==
    /\ IF ~var_os(envSet)
       THEN /\ initResult' = "none"
            /\ UNCHANGED <<dirState, router, faults>>
       ELSE \E osOk \in BOOLEAN :
              LET r == create_dir_all(dirState, osOk) IN
                /\ Fault(~osOk)
                /\ dirState' = r.state
                /\ router' = (router \/ r.ok)
                /\ initResult' = IF r.ok THEN "some" ELSE "none"
    /\ UNCHANGED <<headers, line, envSet, files, writers, events, pc, curEv, sent, curReq, begins, lastBegin>>

RECURSIVE WriteAll(_, _, _)
\* write_all of the chunks bs, one after the other, from offset pos
WriteAll(data, pos, bs) ==
    IF bs = <<>> THEN data
    ELSE WriteAll(WriteAt(data, pos, Head(bs)), Advance(pos), Tail(bs))

\* faulty variant: the results of the writes are dropped, Ok(()) once the file is open
write_request_file_unchecked(file, attempt, url, payload, n) ==
    LET bytes == RequestBytes(attempt, url, payload) IN
    IF n < 0 THEN [ok |-> FALSE, file |-> file]
    ELSE LET opened == OpenTruncate(file) IN
         [ok |-> TRUE,
          file |-> [opened EXCEPT !.data = WriteAll(opened.data, 0, SubSeq(bytes, 1, n))]]

\* write_request_file.  n says how far the call gets: -1, open fails; 0..full-1,
\* a write fails after n chunks; full, everything is written.
write_request_file(file, attempt, url, payload, n) ==
    LET bytes == RequestBytes(attempt, url, payload) IN
    IF n < 0 THEN [ok |-> FALSE, file |-> file]
    ELSE LET opened == OpenTruncate(file) IN
         [ok |-> (n = Len(bytes)),
          file |-> [opened EXCEPT !.data = WriteAll(opened.data, 0, SubSeq(bytes, 1, n))]]

\* create_response_file
create_response_file(file, ok) ==
    IF ok THEN [ok |-> TRUE, file |-> OpenTruncate(file)] ELSE [ok |-> FALSE, file |-> file]

\* faulty variant: a writer is returned whether or not the file was opened
always_writer(opened) == "writer"

\* what log_request returns once create_response_file has returned
log_request_result(opened) == IF opened THEN "writer" ELSE "none"

\* faulty variant: the error is logged and log_request goes on
proceeds_anyway(written) == TRUE

\* if let Err(err) = write_request_file(..) { warn!(..); return None; }
proceeds(written) == written

\* log_request, up to and including write_request_file.  Callers do not begin
\* the same attempt number twice concurrently.
LogRequestWrite(t) ==
    /\ pc[t] = "idle"
    /\ router
    /\ begins + Len(events) < MaxCalls
    /\ begins' = begins + 1
    /\ \E a \in Attempts, u \in Urls, p \in Payloads :
         /\ \A t2 \in Threads : pc[t2] = "resp" => curReq[t2].attempt # a
         /\ \E n \in -1..Len(RequestBytes(a, u, p)) :
              LET r == write_request_file(files[request_path(a)], a, u, p, n)
                  req == [attempt |-> a, url |-> u, payload |-> p] IN
                /\ Fault(n # Len(RequestBytes(a, u, p)))
                /\ files' = [files EXCEPT ![request_path(a)] = r.file]
                /\ IF proceeds(r.ok)
                   THEN /\ pc' = [pc EXCEPT ![t] = "resp"]
                        /\ curReq' = [curReq EXCEPT ![t] = req]
                        /\ UNCHANGED lastBegin
                   ELSE /\ lastBegin' = [attempt |-> a, outcome |-> "request_failed",
                                         hadLines |-> FALSE]
                        /\ UNCHANGED <<pc, curReq>>
    /\ UNCHANGED <<headers, line, envSet, dirState, router, writers, events, curEv, sent, initResult>>

\* log_request, from create_response_file to its return
LogRequestOpen(t) ==
    /\ pc[t] = "resp"
    /\ \E ok \in BOOLEAN :
         LET path == response_path(curReq[t].attempt)
             r == create_response_file(files[path], ok)
             res == log_request_result(r.ok) IN
           /\ Fault(~ok)
           /\ files' = [files EXCEPT ![path] = r.file]
           /\ writers' = IF res = "writer"
                          THEN Append(writers, [path |-> path, pos |-> 0,
                                                holder |-> NoThread, poisoned |-> FALSE])
                          ELSE writers
           /\ lastBegin' = [attempt |-> curReq[t].attempt,
                            outcome |-> IF r.ok THEN "ok" ELSE "response_failed",
                            hadLines |-> files[path].data # <<>>]
    /\ pc' = [pc EXCEPT ![t] = "idle"]
    /\ curReq' = [curReq EXCEPT ![t] = NoReq]
    /\ UNCHANGED <<headers, line, envSet, dirState, router, events, curEv, sent, begins, initResult>>

\* ------------------------------------------------------- Attempt Writer

\* the events of writer w whose call has returned (normally or by unwinding)
Returned(w) == {e \in 1..Len(events) : events[e].writer = w /\ events[e].status # "pending"}

\* A log_* call: builds the json! value, then enters write_json_line and waits
\* for the lock.  The six calls differ in the value only, which the model keeps
\* as the identity of the event; after records the calls on the same writer
\* that had returned before this one was made.
EmitCall(t, w, kind) ==
    /\ pc[t] = "idle"
    /\ w \in 1..Len(writers)
    /\ begins + Len(events) < MaxCalls
    /\ events' = Append(events, [writer |-> w, status |-> "pending", after |-> Returned(w)])
    /\ curEv' = [curEv EXCEPT ![t] = Len(events) + 1]
    /\ sent' = [sent EXCEPT ![t] = 0]
    /\ pc' = [pc EXCEPT ![t] = "waiting"]
    /\ UNCHANGED <<headers, line, envSet, dirState, router, files, writers, curReq, begins, faults, lastBegin,
                   initResult>>

log_response_start(t, w) == EmitCall(t, w, "response_started")
log_stream_event(t, w) == EmitCall(t, w, "sse_event")
log_stream_closed(t, w) == EmitCall(t, w, "sse_closed")
log_error(t, w) == EmitCall(t, w, "error")
log_error_response(t, w) == EmitCall(t, w, "error_response")
log_message(t, w) == EmitCall(t, w, "info")

\* self.inner.file.lock(), poisoned or not
Acquire(t) ==
    /\ pc[t] = "waiting"
    /\ LET w == events[curEv[t]].writer IN
         /\ LockFree(writers[w])
         /\ IF GuardObtained(writers[w].poisoned)
            THEN /\ writers' = [writers EXCEPT ![w].holder = t]
                 /\ pc' = [pc EXCEPT ![t] = "ser"]
                 /\ UNCHANGED <<events, curEv>>
            ELSE /\ pc' = [pc EXCEPT ![t] = "panicked"]
                 /\ events' = [events EXCEPT ![curEv[t]].status = "panicked"]
                 /\ curEv' = [curEv EXCEPT ![t] = 0]
                 /\ UNCHANGED writers
    /\ UNCHANGED <<headers, line, envSet, dirState, router, files, sent, curReq, begins, faults, lastBegin,
                   initResult>>

\* one write through the guard: the chunk lands at the handle's offset
GuardWrite(t, b) ==
    LET w == events[curEv[t]].writer
        wr == writers[w] IN
      /\ files' = [files EXCEPT ![wr.path].data = WriteAt(@, wr.pos, b)]
      /\ writers' = [writers EXCEPT ![w].pos = Advance(wr.pos)]

\* write_json_line returns: the guard is dropped
ReturnFromWrite(t, status, wrs) ==
    LET w == events[curEv[t]].writer IN
      /\ writers' = [wrs EXCEPT ![w] = Unlock(wrs[w])]
      /\ events' = [events EXCEPT ![curEv[t]].status = status]
      /\ curEv' = [curEv EXCEPT ![t] = 0]
      /\ sent' = [sent EXCEPT ![t] = 0]
      /\ pc' = [pc EXCEPT ![t] = "idle"]

\* serde_json::to_writer(&mut *guard, &value): the next chunk, or an error
Serialize(t) ==
    /\ pc[t] = "ser"
    /\ \E ok \in BOOLEAN :
         /\ Fault(~ok)
         /\ IF ok
            THEN /\ GuardWrite(t, EventBytes(curEv[t])[sent[t] + 1])
                 /\ sent' = [sent EXCEPT ![t] = sent[t] + 1]
                 /\ pc' = [pc EXCEPT
                             ![t] = IF sent[t] + 1 = Len(EventChunks) THEN "nl" ELSE "ser"]
                 /\ UNCHANGED <<events, curEv>>
            ELSE /\ ReturnFromWrite(t, "err", writers)
                 /\ UNCHANGED files
    /\ UNCHANGED <<headers, line, envSet, dirState, router, curReq, begins, lastBegin, initResult>>

\* guard.write_all(b"\n")
WriteNewline(t) ==
    /\ pc[t] = "nl"
    /\ \E ok \in BOOLEAN :
         /\ Fault(~ok)
         /\ IF ok
            THEN /\ GuardWrite(t, NewlineByte(curEv[t]))
                 /\ pc' = [pc EXCEPT ![t] = "flush"]
                 /\ UNCHANGED <<events, curEv, sent>>
            ELSE /\ ReturnFromWrite(t, "err", writers)
                 /\ UNCHANGED files
    /\ UNCHANGED <<headers, line, envSet, dirState, router, curReq, begins, lastBegin, initResult>>

\* guard.flush(), then the end of write_json_line
Flush(t) ==
    /\ pc[t] = "flush"
    /\ \E ok \in BOOLEAN :
         /\ Fault(~ok)
         /\ ReturnFromWrite(t, IF ok THEN "ok" ELSE "err", writers)
    /\ UNCHANGED <<headers, line, envSet, dirState, router, files, curReq, begins, lastBegin, initResult>>

\* The holder fails irrecoverably inside the critical section: unwinding drops
\* the guard, which poisons the Mutex.
Panic(t) ==
    /\ pc[t] \in {"ser", "nl", "flush"}
    /\ Fault(TRUE)
    /\ LET w == events[curEv[t]].writer IN
         writers' = [writers EXCEPT ![w] = UnlockPanicking(writers[w])]
    /\ events' = [events EXCEPT ![curEv[t]].status = "panicked"]
    /\ curEv' = [curEv EXCEPT ![t] = 0]
    /\ sent' = [sent EXCEPT ![t] = 0]
    /\ pc' = [pc EXCEPT ![t] = "panicked"]
    /\ UNCHANGED <<headers, line, envSet, dirState, router, files, curReq, begins, lastBegin, initResult>>

\* ------------------------------------------------- response_started
loggerVars == <<envSet, dirState, router, files, writers, events, pc, curEv, sent, curReq,
                begins, faults, lastBegin, initResult>>

\* the caller collects one more header of the response
HeaderAppend ==
    /\ Len(headers) < MaxHeaders
    /\ \E name \in HeaderNames, value \in HeaderValues :
         headers' = Append(headers, [name |-> name, value |-> value])
    /\ line' = NoLine
    /\ UNCHANGED loggerVars

\* log_response_start up to the json! value handed to write_json_line
response_started_value ==
    /\ \E status \in StatusCodes, order \in TableOrders :
         line' = [written |-> TRUE, given |-> status, status |-> status,
                  headers |-> headers_map(iter(headers, order), <<>>)]
    /\ UNCHANGED headers
    /\ UNCHANGED loggerVars

\* ------------------------------------------------------ specifications

\* the steps of a call once it is under way
Step(t) ==
    \/ LogRequestOpen(t)
    \/ Acquire(t)
    \/ Serialize(t)
    \/ WriteNewline(t)
    \/ Flush(t)

Next ==
    \/ from_env
    \/ \E t \in Threads : LogRequestWrite(t)
    \/ \E t \in Threads : LogRequestOpen(t)
    \/ \E t \in Threads, w \in 1..MaxCalls : log_response_start(t, w)
    \/ \E t \in Threads, w \in 1..MaxCalls : log_stream_event(t, w)
    \/ \E t \in Threads, w \in 1..MaxCalls : log_stream_closed(t, w)
    \/ \E t \in Threads, w \in 1..MaxCalls : log_error(t, w)
    \/ \E t \in Threads, w \in 1..MaxCalls : log_error_response(t, w)
    \/ \E t \in Threads, w \in 1..MaxCalls : log_message(t, w)
    \/ \E t \in Threads : Acquire(t)
    \/ \E t \in Threads : Serialize(t)
    \/ \E t \in Threads : WriteNewline(t)
    \/ \E t \in Threads : Flush(t)
    \/ \E t \in Threads : Panic(t)

Spec == Init /\ [][Next]_vars

\* log_response_start on its own: the headers it is given and the value it builds
InitHeaders == Init /\ ~envSet /\ dirState = "absent"
NextHeaders == HeaderAppend \/ response_started_value
SpecHeaders == InitHeaders /\ [][NextHeaders]_vars

\* Threads are scheduled fairly: a call under way takes its next step.  Nobody
\* is obliged to start a call, and nothing obliges a holder to panic.
FairSpec == Spec /\ \A t \in Threads : WF_vars(Step(t))

TypeOK ==
    /\ envSet \in BOOLEAN
    /\ dirState \in {"absent", "dir", "file"}
    /\ router \in BOOLEAN
    /\ \A p \in Paths : files[p].exists \in BOOLEAN
    /\ Len(writers) <= MaxCalls
    /\ Len(events) <= MaxCalls
    /\ \A t \in Threads : pc[t] \in {"idle", "resp", "waiting", "ser", "nl", "flush", "panicked"}

\* --------------------------------------------- reading a response file

ResponsePaths == {response_path(a) : a \in Attempts}

\* the handles opened on path p
HandlesOn(p) == {w \in 1..Len(writers) : writers[w].path = p}

\* the emit calls made on writer w
EventsOf(w) == {e \in 1..Len(events) : events[e].writer = w}

\* where chunks of event e lie in data
PositionsOf(data, e) == {i \in 1..Len(data) : data[i].ev = e}

\* positions i <= j of data are on the same line: no newline from i up to j - 1
SameLine(data, i, j) == \A k \in i..(j - 1) : data[k].ch # NL

\* the complete line of event e
LineOf(e) == EventBytes(e) \o <<NewlineByte(e)>>
LineLen == Len(EventChunks) + 1

\* data holds the line of e, starting at the beginning of a line
HasLine(data, e) ==
    \E k \in 1..Len(data) :
        /\ k = 1 \/ data[k - 1].ch = NL
        /\ k + LineLen - 1 <= Len(data)
        /\ SubSeq(data, k, k + LineLen - 1) = LineOf(e)

\* the number of newline-terminated lines of data
LineCount(data) == Cardinality({i \in 1..Len(data) : data[i].ch = NL})

\* One writer, cloned at will, is the only handle ever opened on its file and
\* no holder of its lock has panicked.
Undisturbed(w) == HandlesOn(writers[w].path) = {w} /\ ~writers[w].poisoned

\* ---------------------------------------------------------------- claims

\* C1: with no holder crashing while holding the lock, no line of the response
\* file of one Attempt Writer holds chunks of more than one event.
C1_NoLineHoldsTwoEvents ==
    \A w \in 1..Len(writers) :
        Undisturbed(w) =>
            LET data == files[writers[w].path].data IN
            \A i, j \in 1..Len(data) :
                (i <= j /\ SameLine(data, i, j)) => data[i].ev = data[j].ev

\* C2: once all N emit calls on one Attempt Writer have returned, all of their
\* I/O steps having succeeded, the response file holds exactly N
\* newline-terminated lines, one for each event.
C2_ExactlyNLines ==
    \A w \in 1..Len(writers) :
        (Undisturbed(w) /\ \A e \in EventsOf(w) : events[e].status = "ok") =>
            LET data == files[writers[w].path].data IN
            /\ LineCount(data) = Cardinality(EventsOf(w))
            /\ Len(data) = Cardinality(EventsOf(w)) * LineLen
            /\ \A e \in EventsOf(w) : HasLine(data, e)

C2_Witness ==
    \E w \in 1..Len(writers) :
        /\ Undisturbed(w)
        /\ \A e \in EventsOf(w) : events[e].status = "ok"
        \* two calls that ran concurrently: the later one was made before the
        \* earlier one returned
        /\ \E a, b \in EventsOf(w) : a < b /\ a \notin events[b].after
        /\ LineCount(files[writers[w].path].data) = Cardinality(EventsOf(w))

\* C3: if emit call A on a writer returned before emit call B on it was made,
\* whatever the file holds of A lies before whatever it holds of B.
C3_EmissionOrder ==
    \A b \in 1..Len(events) : \A a \in events[b].after :
        LET data == files[writers[events[b].writer].path].data IN
        \A i \in PositionsOf(data, a), j \in PositionsOf(data, b) : i < j

C3_Witness ==
    \E b \in 1..Len(events) : \E a \in events[b].after :
        LET data == files[writers[events[b].writer].path].data IN
        /\ events[a].status = "ok" /\ events[b].status = "ok"
        /\ HasLine(data, a) /\ HasLine(data, b)

\* C4: an emit call that failed has left nothing of its event in the file.
C4_FailedCallLeavesNothing ==
    \A e \in 1..Len(events) :
        events[e].status = "err" =>
            PositionsOf(files[writers[events[e].writer].path].data, e) = {}

\* C5: after an emit call on a writer failed, a later call on it whose own I/O
\* succeeds has appended one complete line that holds its own event only.
C5_LaterCallWritesOwnLine ==
    \A b \in 1..Len(events) :
        (/\ Undisturbed(events[b].writer)
         /\ events[b].status = "ok"
         /\ \E a \in events[b].after : events[a].status = "err") =>
            HasLine(files[writers[events[b].writer].path].data, b)

\* C6: once a holder has panicked and left the lock poisoned, a call waiting
\* for that lock still gets the guard and enters the critical section.
C6_PoisonedLockStillGranted ==
    \A t \in Threads :
        (pc[t] = "waiting" /\ writers[events[curEv[t]].writer].poisoned) ~> (pc[t] = "ser")

C6_Witness ==
    \E b \in 1..Len(events) :
        /\ events[b].status = "ok"
        /\ \E a \in events[b].after : events[a].status = "panicked"
        /\ PositionsOf(files[writers[events[b].writer].path].data, b) # {}

\* C7: every emit call that waits for the lock leaves write_json_line: it
\* returns, or it unwinds if it panics itself; no call waits for ever.
C7_EveryCallReturns ==
    \A t \in Threads : (pc[t] = "waiting") ~> (pc[t] \in {"idle", "panicked"})

\* a call that had to wait for another holder, which then failed, has returned
C7_Witness ==
    \E a, b \in 1..Len(events) :
        /\ a < b /\ events[a].writer = events[b].writer
        /\ a \notin events[b].after
        /\ events[a].status = "err" /\ events[b].status = "ok"
        /\ PositionsOf(files[writers[events[b].writer].path].data, a) # {}
        /\ \A i \in PositionsOf(files[writers[events[b].writer].path].data, a),
              j \in PositionsOf(files[writers[events[b].writer].path].data, b) : i < j

\* the step in which thread t's log_request returns from create_response_file
BeginReturns(t) == pc[t] = "resp" /\ pc'[t] = "idle"

\* the step in which a log_request returns because write_request_file failed
BeginFailsEarly == begins' # begins /\ \A t \in Threads : pc'[t] = pc[t]

RequestPaths == {request_path(a) : a \in Attempts}

\* C8: a log_request whose file operations succeed leaves the complete record
\* in the attempt's request file and in no other, an existing and empty
\* response file, and returns a writer bound to that response file.
C8_BeginLeavesRecordAndEmptyStream ==
    [][\A t \in Threads :
        (BeginReturns(t) /\ lastBegin'.outcome = "ok") =>
            LET req == curReq[t] IN
            /\ files'[request_path(req.attempt)] =
                   [exists |-> TRUE, data |-> RequestBytes(req.attempt, req.url, req.payload)]
            /\ \A p \in RequestPaths \ {request_path(req.attempt)} :
                   \A i \in 1..Len(files'[p].data) : files'[p].data[i].attempt # req.attempt
            /\ files'[response_path(req.attempt)] = [exists |-> TRUE, data |-> <<>>]
            /\ Len(writers') = Len(writers) + 1
            /\ writers'[Len(writers')] = [path |-> response_path(req.attempt), pos |-> 0,
                                          holder |-> NoThread, poisoned |-> FALSE]
      ]_vars

C8_Witness ==
    /\ lastBegin.outcome = "ok"
    /\ Len(writers) = 1
    /\ events = <<>>
    /\ files[response_path(lastBegin.attempt)] = [exists |-> TRUE, data |-> <<>>]
    /\ \E u \in Urls, p \in Payloads :
          files[request_path(lastBegin.attempt)].data = RequestBytes(lastBegin.attempt, u, p)

\* C9: a log_request one of whose file operations fails returns no writer and
\* its caller carries on; when it is the response file that cannot be opened,
\* the request file written just before stays as it is.
C9_FailedBeginYieldsNoWriter ==
    [][/\ BeginFailsEarly => (writers' = writers /\ lastBegin'.outcome = "request_failed")
       /\ \A t \in Threads :
            (BeginReturns(t) /\ lastBegin'.outcome = "response_failed") =>
                LET req == curReq[t] IN
                /\ writers' = writers
                /\ files'[request_path(req.attempt)] =
                       [exists |-> TRUE,
                        data |-> RequestBytes(req.attempt, req.url, req.payload)]
      ]_vars

C9_Witness ==
    /\ lastBegin.outcome = "response_failed"
    /\ writers = <<>>
    /\ ~files[response_path(lastBegin.attempt)].exists
    /\ \E u \in Urls, p \in Payloads :
          files[request_path(lastBegin.attempt)].data = RequestBytes(lastBegin.attempt, u, p)

\* C10: a successful log_request for an attempt number logged before leaves
\* only the new record in the request file and an empty response file: nothing
\* of the earlier record or of the earlier lines is kept.
C10_RebeginReplacesBothFiles ==
    [][\A t \in Threads :
        (/\ BeginReturns(t)
         /\ lastBegin'.outcome = "ok"
         /\ files[response_path(curReq[t].attempt)].exists) =>
            LET req == curReq[t]
                old == files[response_path(req.attempt)].data
                new == files'[response_path(req.attempt)].data
                rec == files'[request_path(req.attempt)].data IN
            /\ \A i \in 1..Len(old) : \A j \in 1..Len(new) : new[j] # old[i]
            /\ Len(new) = 0
            /\ Len(rec) = Len(RequestBytes(req.attempt, req.url, req.payload))
            /\ \A i \in 1..Len(rec) :
                   rec[i] = RequestBytes(req.attempt, req.url, req.payload)[i]
      ]_vars

C10_Witness ==
    /\ lastBegin.outcome = "ok"
    /\ lastBegin.hadLines
    /\ Cardinality(HandlesOn(response_path(lastBegin.attempt))) > 1
    /\ files[response_path(lastBegin.attempt)].data = <<>>
    /\ \E u \in Urls, p \in Payloads :
          files[request_path(lastBegin.attempt)].data = RequestBytes(lastBegin.attempt, u, p)

\* data a is an initial part of data b
IsPrefix(a, b) == Len(a) <= Len(b) /\ \A i \in 1..Len(a) : b[i] = a[i]

\* a step of some emit call, not of a log_request
EmitStep == begins' = begins /\ \A t \in Threads : ~BeginReturns(t)

\* C11: an emit call only appends to the response file: what the file held
\* before is an initial part of what it holds after, also when the writer comes
\* from an earlier log_request of an attempt number begun again since.
C11_EmitOnlyAppends ==
    [][EmitStep => \A p \in ResponsePaths : IsPrefix(files[p].data, files'[p].data)]_vars

\* C12: with no base directory configured, from_env returns no router and
\* nothing on the filesystem is created, changed or removed.
C12_NoConfigNoEffect ==
    [][~envSet => /\ ~router'
                  /\ initResult' \in {"never", "none"}
                  /\ dirState' = dirState
                  /\ files' = files
                  /\ writers' = writers]_vars

C12_Witness == ~envSet /\ initResult = "none" /\ dirState = "absent" /\ ~router

\* C13: when the conversation directory cannot be created (a regular file is
\* in the way), from_env returns no router; it never panics or blocks; a router
\* is returned only with the directory in place, and initializing again then
\* succeeds again and changes nothing.
C13_InitFailsSoftAndIsIdempotent ==
    /\ dirState = "file" => (~router /\ initResult \in {"never", "none"})
    /\ initResult = "some" => (router /\ envSet)
    /\ router => dirState = "dir"
    /\ ENABLED from_env
    /\ initResult = "some" =>
          \A osOk \in BOOLEAN :
              create_dir_all(dirState, osOk) = [ok |-> TRUE, state |-> dirState]

C13_Witness == envSet /\ dirState = "file" /\ initResult = "none" /\ ~router

\* the request record of the call with arguments req, complete, is in its file
RequestComplete(req) ==
    files[request_path(req.attempt)] =
        [exists |-> TRUE, data |-> RequestBytes(req.attempt, req.url, req.payload)]

\* the step is log_request's write of the request file of attempt a
BeginWrites(a) ==
    /\ begins' = begins + 1
    /\ \/ \E t \in Threads : pc[t] = "idle" /\ pc'[t] = "resp" /\ curReq'[t].attempt = a
       \/ BeginFailsEarly /\ lastBegin'.outcome = "request_failed" /\ lastBegin'.attempt = a

\* C14: the request file of an attempt changes only in a log_request call for
\* that attempt number: no step of an emit call and no log_request for another
\* attempt number changes it.
C14_RequestRecordOnlyWrittenByItsBegin ==
    [][\A a \in Attempts :
          files'[request_path(a)] # files[request_path(a)] => BeginWrites(a)]_vars

C14_Witness ==
    \E a, b \in Attempts :
        /\ a # b
        /\ \E u \in Urls, p \in Payloads : RequestComplete([attempt |-> a, url |-> u, payload |-> p])
        /\ LineCount(files[response_path(a)].data) > 0
        /\ files[request_path(b)].exists

\* the positions of write_json_line at which the caller holds the guard
InCriticalSection == {"ser", "nl", "flush"}

\* C16: at most one caller is inside the critical section of one Attempt
\* Writer, and a call that writes event chunks, writes the newline or flushes
\* holds the writer's lock all the way from the first chunk to the flush.
C16_WritesUnderTheLock ==
    /\ \A w \in 1..Len(writers) :
          Cardinality({t \in Threads :
                          pc[t] \in InCriticalSection /\ events[curEv[t]].writer = w}) <= 1
    /\ \A t \in Threads :
          pc[t] \in InCriticalSection =>
              curEv[t] # 0 /\ writers[events[curEv[t]].writer].holder = t

C16_Witness ==
    \E t1, t2 \in Threads :
        /\ pc[t1] = "flush"
        /\ pc[t2] = "waiting"
        /\ events[curEv[t1]].writer = events[curEv[t2]].writer

\* C17: when log_request opens the response file, the request record of the
\* same call is on disk in full; the writer it returns comes into being only
\* then, so every event line of that writer is written after it.
C17_RequestCompleteBeforeResponseOpened ==
    [][\A t \in Threads : BeginReturns(t) => RequestComplete(curReq[t])]_vars

C17_Witness ==
    \E w \in 1..Len(writers), a \in Attempts, u \in Urls, p \in Payloads :
        /\ writers[w].path = response_path(a)
        /\ EventsOf(w) # {}
        /\ LineCount(files[response_path(a)].data) > 0
        /\ RequestComplete([attempt |-> a, url |-> u, payload |-> p])

\* distinct attempt numbers share no file path
PathsDistinct ==
    \A a, b \in Attempts :
        a # b => {request_path(a), response_path(a)} \cap {request_path(b), response_path(b)} = {}

\* the step is a step of an emit call on writer w, past its invocation
EmitOn(w) ==
    \E t \in Threads :
        /\ pc[t] \in {"waiting", "ser", "nl", "flush"}
        /\ events[curEv[t]].writer = w
        /\ pc'[t] # pc[t] \/ sent'[t] # sent[t]

\* C18: distinct attempt numbers resolve to distinct request and response
\* paths; a step of an emit call on one writer changes no other writer's lock
\* or handle and no file but that writer's own, which is the response file of
\* exactly one attempt number.
C18_AttemptsIsolated ==
    [][/\ PathsDistinct
       /\ \A w \in 1..Len(writers) :
             EmitOn(w) =>
                 /\ Cardinality({a \in Attempts : response_path(a) = writers[w].path}) = 1
                 /\ \A p \in Paths : p # writers[w].path => files'[p] = files[p]
                 /\ \A v \in 1..Len(writers) : v # w => writers'[v] = writers[v]]_vars

C18_Witness ==
    \E v, w \in 1..Len(writers) :
        /\ writers[v].path # writers[w].path
        /\ LineCount(files[writers[v].path].data) > 0
        /\ LineCount(files[writers[w].path].data) > 0

\* C19: a log_request call that fails while writing the request file returns
\* there: no response file is created, truncated or changed, and no writer
\* is made.
C19_FailedRequestWriteLeavesResponseAlone ==
    [][(begins' # begins /\ faults' # faults) =>
          /\ \A t \in Threads : pc'[t] = pc[t]
          /\ \A p \in ResponsePaths : files'[p] = files[p]
          /\ writers' = writers
          /\ lastBegin'.outcome = "request_failed"]_vars

C19_Witness ==
    /\ lastBegin.outcome = "request_failed"
    /\ files[response_path(lastBegin.attempt)].exists
    /\ LineCount(files[response_path(lastBegin.attempt)].data) > 0

\* the values given for header name, in the order they were given
ValuesGiven(hs, name) == [k \in 1..Len(EntriesOf(hs, name)) |-> EntriesOf(hs, name)[k].value]

\* C15: the response_started line has the status code given, its headers
\* object lists the names given in sorted order, and each name maps to exactly
\* the values given for it, in the order given.
C15_HeadersRoundTrip ==
    line.written =>
        /\ line.status = line.given
        /\ \A i, j \in 1..Len(line.headers) :
              i < j => line.headers[i].name < line.headers[j].name
        /\ {line.headers[i].name : i \in 1..Len(line.headers)}
              = {headers[k].name : k \in 1..Len(headers)}
        /\ \A i \in 1..Len(line.headers) :
              line.headers[i].values = ValuesGiven(headers, line.headers[i].name)

====
